---- MODULE Spec2Model ----
(***************************************************************************)
(* The newsletter cache of tavily-llm-agent: key construction, TTL policy, *)
(* the Redis-backed store, the fetch-or-generate gateway                   *)
(* (generate_newsletter_with_cache) and the two invalidation operations.   *)
(* Strings are sequences of one-character strings, so that lower(), the    *)
(* key layout and Redis' glob matching are computed character by character.*)
(***************************************************************************)
EXTENDS Integers, Sequences, FiniteSets, TLC

VARIABLES
    redis_client,  \* tools/cache.py module global: TRUE = a client object, FALSE = None
    storeUp,       \* whether the Redis server answers commands at this moment
    store,         \* the Redis keyspace: key -> [value, ttl, age]
    pc,            \* per caller: position inside generate_newsletter_with_cache
    req,           \* per caller: the arguments of the call in progress / last call
    local,         \* per caller: the local variable `newsletter` after graph.invoke
    result,        \* per caller: the dict returned by the last call
    invoked,       \* per caller: number of graph.invoke calls made by the current call
    replaced,      \* per caller: the live entry the call's write replaced, if any
    inv,           \* the invalidation caller: operation in progress and last return
                   \* value; n alternates between 0 and 1 from one call to the next;
                   \* again marks a call that repeats the call before it, which
                   \* had removed something
    calls,         \* per caller: number of gateway calls started so far
    keyIn,         \* inputs of the key-builder harness: two (profession, time_period) pairs
    keyOut,        \* outputs of the key-builder harness: the two keys
    tel,           \* telemetry/metadata_emitter.py: the global TelemetryEmitter and
                   \* the outcome of its last emit_event / emit_batch call
    ev,            \* the EventBuilder harness: the arguments of cache_operation and its event
    ui,            \* interactive_agent.py: position inside generate_newsletter_interactive
    main           \* interactive_agent.py: position inside main, its locals profession
                   \* and time_period, and the generations of the current retry loop

vars == <<redis_client, storeUp, store, pc, req, local, result, invoked,
          replaced, inv, calls, keyIn, keyOut, tel, ev, ui, main>>

(***************************************************************************)
(* Bounds of the model.                                                    *)
(***************************************************************************)
MaxCalls == 3

\* Caller 1 is the single-threaded program; caller 2 is a second request
\* running at the same time against the same store.
Callers == {"c1", "c2"}
SeqCallers == {"c1"}

(***************************************************************************)
(* Characters and strings.                                                 *)
(***************************************************************************)
UpperCase == <<"A","B","C","D","E","F","G","H","I","J","K","L","M",
               "N","O","P","Q","R","S","T","U","V","W","X","Y","Z">>
LowerCase == <<"a","b","c","d","e","f","g","h","i","j","k","l","m",
               "n","o","p","q","r","s","t","u","v","w","x","y","z">>

\* The case mappings of the ASCII letters, as tables.
LowerTable == [ch \in {UpperCase[i] : i \in 1..Len(UpperCase)} |->
                  LowerCase[CHOOSE i \in 1..Len(UpperCase) : UpperCase[i] = ch]]
UpperTable == [ch \in {LowerCase[i] : i \in 1..Len(LowerCase)} |->
                  UpperCase[CHOOSE i \in 1..Len(LowerCase) : LowerCase[i] = ch]]

IsAlpha(ch) == ch \in DOMAIN LowerTable \/ ch \in DOMAIN UpperTable

LowerChar(ch) == IF ch \in DOMAIN LowerTable THEN LowerTable[ch] ELSE ch

UpperChar(ch) == IF ch \in DOMAIN UpperTable THEN UpperTable[ch] ELSE ch

\* str.lower()
lower(s) == [i \in 1..Len(s) |-> LowerChar(s[i])]

\* str.title(): a cased character is upper-cased after an uncased one (or at
\* the start) and lower-cased after a cased one.
title(s) ==
    [i \in 1..Len(s) |->
        IF i = 1 \/ ~IsAlpha(s[i - 1]) THEN UpperChar(s[i]) ELSE LowerChar(s[i])]

Day == <<"d","a","y">>
Week == <<"w","e","e","k">>
Month == <<"m","o","n","t","h">>
Year == <<"y","e","a","r">>
ScientistDay == <<"s","c","i","e","n","t","i","s","t","_","d","a","y">>

data == <<"d","a","t","a">>
DataCap == <<"D","a","t","a">>
data_scientist == <<"d","a","t","a","_","s","c","i","e","n","t","i","s","t">>

\* The inputs callers pass: three professions (two equal ignoring case, one
\* extending another after the separator) and four periods, one unrecognized.
Professions == {data, DataCap, data_scientist}
ValidPeriods == {Day, Week, Month}
Periods == ValidPeriods \cup {Year}
\* The key-builder harness also draws a period that contains the separator.
KeyPeriods == Periods \cup {ScientistDay}
\* The requests the callers of the state machine make.
Requests == {<<data, Day>>, <<DataCap, Day>>, <<data, Week>>, <<data, Month>>,
             <<data, Year>>, <<data_scientist, Day>>}

\* Python values a newsletter variable can hold: None, the empty string, or a
\* newsletter text (kept as the fields create_final_newsletter formats into it).
None == [kind |-> "None"]
EmptyStr == [kind |-> "empty"]
\* An exception leaving a function instead of a return value.
Raised == [kind |-> "raised"]
Truthy(v) == v.kind \notin {"None", "empty"}

(***************************************************************************)
(* tools/cache.py: TTL_MAP, get_cache_key.                                 *)
(***************************************************************************)
TTL_MAP == (Day :> 8 * 3600) @@ (Week :> 48 * 3600) @@ (Month :> 168 * 3600)

\* Mutant: an unrecognized period gets the longest TTL.
ttl_seconds_month_default(time_period) ==
    IF time_period \in DOMAIN TTL_MAP THEN TTL_MAP[time_period] ELSE TTL_MAP[Month]

\* TTL_MAP.get(time_period, TTL_MAP["day"])
ttl_seconds(time_period) ==
    IF time_period \in DOMAIN TTL_MAP THEN TTL_MAP[time_period] ELSE TTL_MAP[Day]

KeyPrefix == <<"n","e","w","s","l","e","t","t","e","r","_">>

\* Mutant: the profession is not lower-cased.
get_cache_key_raw(profession, time_period) ==
    KeyPrefix \o profession \o <<"_">> \o time_period

\* Mutant: the period is left out of the key.
get_cache_key_no_period(profession, time_period) ==
    KeyPrefix \o lower(profession)

\* Mutant: the key is built from the display form of the profession
\* (profession.title()), as input_handler formats it.
get_cache_key_title(profession, time_period) ==
    KeyPrefix \o title(profession) \o <<"_">> \o time_period

\* f"newsletter_{profession.lower()}_{time_period}"
get_cache_key(profession, time_period) ==
    KeyPrefix \o lower(profession) \o <<"_">> \o time_period

\* f"newsletter_{profession.lower()}_*"
clear_pattern(profession) ==
    KeyPrefix \o lower(profession) \o <<"_", "*">>

(***************************************************************************)
(* The Redis commands the code issues: GET, SETEX, KEYS, DEL, and the      *)
(* server's expiry.  An entry lives while age < ttl.  The field `by` is    *)
(* history: the (profession, time_period) of the call that wrote the entry.*)
(***************************************************************************)
RECURSIVE GlobMatch(_, _)
\* Redis glob-style matching of KEYS: * matches any run of characters,
\* ? matches one character, anything else matches itself.
GlobMatch(pat, s) ==
    IF pat = <<>> THEN s = <<>>
    ELSE IF Head(pat) = "*"
         THEN \E n \in 0..Len(s) : GlobMatch(Tail(pat), SubSeq(s, n + 1, Len(s)))
    ELSE IF s = <<>> THEN FALSE
    ELSE (Head(pat) = "?" \/ Head(pat) = Head(s)) /\ GlobMatch(Tail(pat), Tail(s))

RedisGet(key) == IF key \in DOMAIN store THEN store[key].value ELSE None

RedisSetex(key, ttl, value, by) ==
    [k \in DOMAIN store \cup {key} |->
        IF k = key THEN [value |-> value, ttl |-> ttl, age |-> 0, by |-> by]
        ELSE store[k]]

RedisKeys(pattern) == {k \in DOMAIN store : GlobMatch(pattern, k)}

RedisDelete(keys) == [k \in DOMAIN store \ keys |-> store[k]]

RedisDeleted(keys) == Cardinality(keys \cap DOMAIN store)

(***************************************************************************)
(* tools/cache.py: get_cached_newsletter, cache_newsletter and             *)
(* clear_cache_for_profession; interactive_agent.py: clear_cache_for_user. *)
(* A command sent while the server does not answer raises inside the try   *)
(* block, and the except branch returns the degraded value.                *)
(***************************************************************************)
\* Mutant: the read lets the store's exception out.
get_cached_newsletter_no_except(profession, time_period) ==
    IF ~redis_client THEN None
    ELSE IF ~storeUp THEN Raised
    ELSE LET cached_newsletter == RedisGet(get_cache_key(profession, time_period))
         IN  IF Truthy(cached_newsletter) THEN cached_newsletter ELSE None

\* Mutant: the lookup builds its key without lower-casing the profession.
get_cached_newsletter_raw_key(profession, time_period) ==
    IF ~redis_client THEN None
    ELSE IF ~storeUp THEN None
    ELSE LET cached_newsletter ==
                 RedisGet(KeyPrefix \o profession \o <<"_">> \o time_period)
         IN  IF Truthy(cached_newsletter) THEN cached_newsletter ELSE None

get_cached_newsletter(profession, time_period) ==
    IF ~redis_client THEN None
    ELSE IF ~storeUp THEN None               \* except Exception: return None
    ELSE LET cached_newsletter == RedisGet(get_cache_key(profession, time_period))
         IN  IF Truthy(cached_newsletter) THEN cached_newsletter ELSE None

\* Mutant: a hit restarts the entry's lifetime.
get_cached_newsletter_store_refresh(profession, time_period) ==
    [k \in DOMAIN store |->
        IF k = get_cache_key(profession, time_period)
        THEN [store[k] EXCEPT !.age = 0] ELSE store[k]]

\* The keyspace after get_cached_newsletter: GET changes nothing.
get_cached_newsletter_store(profession, time_period) == store

\* The live entry that the SETEX of cache_newsletter(profession, time_period, ...)
\* replaces: None when the command is not executed or the key holds nothing.
replaced_entry(profession, time_period) ==
    IF redis_client /\ storeUp /\ get_cache_key(profession, time_period) \in DOMAIN store
    THEN store[get_cache_key(profession, time_period)]
    ELSE None

\* The return value of cache_newsletter.
cache_newsletter_ret ==
    IF ~redis_client THEN FALSE
    ELSE IF ~storeUp THEN FALSE              \* except Exception: return False
    ELSE TRUE

\* Mutant: the write does not check that a client exists.
cache_newsletter_no_client_check(profession, time_period, newsletter) ==
    IF ~storeUp THEN store
    ELSE RedisSetex(get_cache_key(profession, time_period),
                    ttl_seconds(time_period), newsletter,
                    <<profession, time_period>>)

\* Mutant: the entry is written under the key of the default period.
cache_newsletter_day_key(profession, time_period, newsletter) ==
    IF ~redis_client THEN store
    ELSE IF ~storeUp THEN store
    ELSE RedisSetex(get_cache_key(profession, Day),
                    ttl_seconds(time_period), newsletter,
                    <<profession, time_period>>)

\* Mutant: the write is SET ... NX, which leaves a key that already holds a
\* value alone.
cache_newsletter_nx(profession, time_period, newsletter) ==
    IF ~redis_client THEN store
    ELSE IF ~storeUp THEN store
    ELSE IF get_cache_key(profession, time_period) \in DOMAIN store THEN store
    ELSE RedisSetex(get_cache_key(profession, time_period),
                    ttl_seconds(time_period), newsletter,
                    <<profession, time_period>>)

\* Mutant: the write is SET ... KEEPTTL, which replaces the value of a key that
\* already holds one and keeps its expiry.
cache_newsletter_keepttl(profession, time_period, newsletter) ==
    IF ~redis_client THEN store
    ELSE IF ~storeUp THEN store
    ELSE IF get_cache_key(profession, time_period) \in DOMAIN store
    THEN [store EXCEPT ![get_cache_key(profession, time_period)].value = newsletter,
                       ![get_cache_key(profession, time_period)].by =
                            <<profession, time_period>>]
    ELSE RedisSetex(get_cache_key(profession, time_period),
                    ttl_seconds(time_period), newsletter,
                    <<profession, time_period>>)

\* The keyspace after cache_newsletter(profession, time_period, newsletter).
cache_newsletter(profession, time_period, newsletter) ==
    IF ~redis_client THEN store
    ELSE IF ~storeUp THEN store
    ELSE RedisSetex(get_cache_key(profession, time_period),
                    ttl_seconds(time_period), newsletter,
                    <<profession, time_period>>)

\* Mutant: the single-entry clear has no try/except around its DEL command.
clear_cache_for_user_ret_no_except(profession, time_period) ==
    IF redis_client
    THEN IF storeUp
         THEN [raised |-> FALSE,
               ret |-> RedisDeleted({get_cache_key(profession, time_period)}) > 0]
         ELSE [raised |-> TRUE, ret |-> FALSE]
    ELSE [raised |-> FALSE, ret |-> FALSE]

\* Mutant: the single-entry clear reports success whenever the DEL command went
\* through, whether or not a key was deleted.
clear_cache_for_user_ret_always(profession, time_period) ==
    IF redis_client /\ storeUp
    THEN [raised |-> FALSE, ret |-> TRUE]
    ELSE [raised |-> FALSE, ret |-> FALSE]

\* clear_cache_for_user(profession, time_period): what it returns, and whether
\* an exception leaves it.
clear_cache_for_user_ret(profession, time_period) ==
    IF redis_client
    THEN IF storeUp
         THEN [raised |-> FALSE,
               ret |-> RedisDeleted({get_cache_key(profession, time_period)}) > 0]
         ELSE [raised |-> FALSE, ret |-> FALSE]     \* except Exception: return False
    ELSE [raised |-> FALSE, ret |-> FALSE]

\* Mutant: the single-entry clear deletes by the profession's pattern.
clear_cache_for_user_pattern(profession, time_period) ==
    IF redis_client /\ storeUp
    THEN RedisDelete(RedisKeys(clear_pattern(profession)))
    ELSE store

\* The keyspace after clear_cache_for_user(profession, time_period).
clear_cache_for_user(profession, time_period) ==
    IF redis_client /\ storeUp
    THEN RedisDelete({get_cache_key(profession, time_period)})
    ELSE store

\* clear_cache_for_profession up to the KEYS command: the keys it lists.
clear_cache_for_profession_keys(profession) ==
    IF ~redis_client THEN {}
    ELSE IF ~storeUp THEN {}                 \* except Exception: return 0
    ELSE RedisKeys(clear_pattern(profession))

\* clear_cache_for_profession, the DEL command: what the call returns, and
\* whether an exception leaves it.
clear_cache_for_profession_ret(keys) ==
    IF storeUp
    THEN [raised |-> FALSE, ret |-> RedisDeleted(keys)]
    ELSE [raised |-> FALSE, ret |-> 0]              \* except Exception: return 0

\* The keyspace after the DEL command of clear_cache_for_profession.
clear_cache_for_profession(keys) ==
    IF storeUp THEN RedisDelete(keys) ELSE store

(***************************************************************************)
(* workflows/ai_newsletter_graph.py: what graph.invoke returns.            *)
(***************************************************************************)
Summaries == {"s1"}

\* search_and_summarize for one search type.  search is what client.search
\* yields: "results", or "none" for an empty result list and for an exception
\* (both leave results = []); llm is "ok" or "raises".
search_and_summarize(search_type, search, llm) ==
    IF search # "results"
    THEN [kind |-> "none_found", search_type |-> search_type]
    ELSE IF llm = "ok"
    THEN [kind |-> "points", search_type |-> search_type]
    ELSE [kind |-> "error", search_type |-> search_type]

\* combine_and_select: fewer than two summaries give the fixed text, a failed
\* LLM call gives "Error selecting top points: ...", and otherwise the LLM's
\* selection from the news summary and the tools summary.
combine_and_select(summaries, llm) ==
    IF Len(summaries) < 2 THEN [kind |-> "no_relevant"]
    ELSE IF llm = "ok"
    THEN [kind |-> "selected", news |-> summaries[1], tools |-> summaries[2]]
    ELSE [kind |-> "error_selecting"]

\* input_handler: the profession is title-cased, an invalid period becomes "day".
input_handler(state) ==
    [profession |-> IF state.profession # <<>> THEN title(state.profession)
                    ELSE state.profession,
     time_period |-> IF state.time_period \notin ValidPeriods THEN Day
                     ELSE state.time_period]

\* create_final_newsletter: the text is built from the profession, the period
\* and the curated summary; the template makes it non-empty.
create_final_newsletter(state, final_summary) ==
    [kind |-> "newsletter", profession |-> state.profession,
     time_period |-> state.time_period, final_summary |-> final_summary]

\* result.get("newsletter", "") of a graph run that ended normally.
graph_invoke(profession, time_period, final_summary) ==
    create_final_newsletter(
        input_handler([profession |-> profession, time_period |-> time_period]),
        final_summary)

(***************************************************************************)
(* telemetry/metadata_emitter.py: TelemetryEmitter.  An event is            *)
(* "serializable" or not (json.dumps raises); a sink outcome is what the    *)
(* local file or Firehose does with one record: "ok", "rejected" (an error  *)
(* response or a botocore error, which FirehoseClient turns into a failure  *)
(* value) or "raises" (any other exception).                                *)
(***************************************************************************)
MaxBatch == 3

Events == {"serializable", "unserializable"}
Sinks == {"ok", "rejected", "raises"}

\* The lists of events handed to emit_batch, each event with the outcome its
\* record meets at the sink.
Batches ==
    UNION {[1..n -> [event : Events, sink : Sinks]] : n \in 0..MaxBatch}

\* _telemetry_instance = None
NoTel ==
    [made |-> FALSE, enabled |-> FALSE, local_fallback |-> FALSE,
     firehose_client |-> FALSE, op |-> "none", ret |-> TRUE, raised |-> FALSE,
     delivered |-> 0, lost |-> 0, given |-> 0]

\* What an emit call yields: its return value, whether an exception left it,
\* and how many records reached the sink and how many failed on the way.
Emitted(ret, delivered, lost) ==
    [ret |-> ret, raised |-> FALSE, delivered |-> delivered, lost |-> lost]

EmitRaised == [ret |-> FALSE, raised |-> TRUE, delivered |-> 0, lost |-> 1]

\* get_telemetry() creating TelemetryEmitter(stream_name, enabled,
\* local_fallback = not stream_name) and TelemetryEmitter.__init__.
TelemetryEmitter(aws_available, telemetry_enabled, stream_name, client_ok) ==
    LET enabled == aws_available /\ telemetry_enabled
        fallback == ~stream_name \/ ~aws_available
        tries == ~fallback /\ aws_available /\ enabled
    IN  [NoTel EXCEPT !.made = TRUE,
                      !.enabled = enabled,
                      !.firehose_client = tries /\ client_ok,
                      !.local_fallback = fallback \/ (tries /\ ~client_ok)]

\* _emit_local: any failure to open or append to the file is caught.
emit_local(sink) ==
    IF sink = "ok" THEN Emitted(TRUE, 1, 0) ELSE Emitted(FALSE, 0, 1)

\* _emit_firehose: no client gives False; put_record gives its success flag;
\* an exception put_record does not catch goes up to emit_event.
emit_firehose(t, sink) ==
    IF ~t.firehose_client THEN Emitted(FALSE, 0, 1)
    ELSE IF sink = "ok" THEN Emitted(TRUE, 1, 0)
    ELSE IF sink = "rejected" THEN Emitted(FALSE, 0, 1)
    ELSE EmitRaised

\* Mutant: emit_event without its try/except.
emit_event_no_except(t, event, sink) ==
    IF ~t.enabled THEN Emitted(TRUE, 0, 0)
    ELSE IF event = "unserializable" THEN EmitRaised
    ELSE IF t.local_fallback THEN emit_local(sink)
    ELSE emit_firehose(t, sink)

\* emit_event
emit_event(t, event, sink) ==
    IF ~t.enabled THEN Emitted(TRUE, 0, 0)
    ELSE IF event = "unserializable" THEN Emitted(FALSE, 0, 1)   \* json.dumps raised
    ELSE IF t.local_fallback THEN emit_local(sink)
    ELSE LET r == emit_firehose(t, sink)
         IN  IF r.raised THEN Emitted(FALSE, 0, 1) ELSE r

\* all(self.emit_event(event) for event in events): stops at the first event
\* whose emit_event is not true.
RECURSIVE emit_all(_, _)
emit_all(t, batch) ==
    IF batch = <<>> THEN Emitted(TRUE, 0, 0)
    ELSE LET r == emit_event(t, Head(batch).event, Head(batch).sink)
         IN  IF r.raised \/ ~r.ret THEN r
             ELSE LET rest == emit_all(t, Tail(batch))
                  IN  [rest EXCEPT !.delivered = @ + r.delivered]

\* The most records one put_record_batch call sends (records[:500], "Firehose
\* limit"), scaled to the batches explored: one less than the longest of them.
FirehoseBatchLimit == MaxBatch - 1

\* records[:500]
Sent(records) ==
    SubSeq(records, 1, IF Len(records) < FirehoseBatchLimit
                       THEN Len(records) ELSE FirehoseBatchLimit)

\* FirehoseClient.put_record_batch(stream_name, records): the first records up
\* to the limit go out in one request; FailedPutCount of the response counts
\* the rejected ones; a ClientError or BotoCoreError counts every record given
\* as failed.
put_record_batch(records) ==
    LET batch_records == Sent(records)
        failed_count ==
            Cardinality({i \in 1..Len(batch_records) : batch_records[i].sink = "rejected"})
    IN  IF records = <<>> THEN [success_count |-> 0, failed_count |-> 0]
        ELSE IF \E i \in 1..Len(batch_records) : batch_records[i].sink = "raises"
        THEN [success_count |-> 0, failed_count |-> Len(records)]
        ELSE [success_count |-> Len(batch_records) - failed_count,
              failed_count |-> failed_count]

\* _emit_firehose_batch: every event is serialized, then one put_record_batch
\* call; an exception or a failed_count above 0 gives False.
emit_firehose_batch(t, batch) ==
    IF ~t.firehose_client THEN Emitted(FALSE, 0, Len(batch))
    ELSE IF \E i \in 1..Len(batch) : batch[i].event = "unserializable"
    THEN Emitted(FALSE, 0, Len(batch))
    ELSE LET r == put_record_batch(batch)
         IN  Emitted(r.failed_count = 0, r.success_count, r.failed_count)

\* emit_batch
emit_batch(t, batch) ==
    IF ~t.enabled \/ batch = <<>> THEN Emitted(TRUE, 0, 0)
    ELSE IF t.local_fallback
    THEN LET r == emit_all(t, batch)
         IN  IF r.raised THEN Emitted(FALSE, r.delivered, r.lost) ELSE r
    ELSE emit_firehose_batch(t, batch)

(***************************************************************************)
(* telemetry/metadata_emitter.py: EventBuilder.cache_operation.  An        *)
(* Optional argument is a set: {} for None, {v} for the value v.           *)
(***************************************************************************)
OptionalInts == {{}, {0}, {3600}}
OptionalReasons == {{}, {""}, {"expired"}}

\* The arguments of one cache_operation call.
EventArgs ==
    [session_id : {"sess"}, query_fingerprint : {"fp"}, cache_hit : BOOLEAN,
     cache_item_age_s : OptionalInts, ttl_assigned_s : OptionalInts,
     ttl_remaining_s : OptionalInts, miss_reason : OptionalReasons]

\* `if not cache_hit and miss_reason:` - a reason that is a non-empty string.
TruthyReason(miss_reason) == miss_reason # {} /\ miss_reason # {""}

\* Mutant: the optional fields are added whenever they are given.
cache_operation_fields_any(a) ==
    {"event_type", "session_id", "query_fingerprint", "cache_hit", "cache_key_version"}
    \cup (IF a.cache_item_age_s # {} THEN {"cache_item_age_s"} ELSE {})
    \cup (IF a.ttl_remaining_s # {} THEN {"ttl_remaining_s"} ELSE {})
    \cup (IF a.ttl_assigned_s # {} THEN {"ttl_assigned_s"} ELSE {})
    \cup (IF TruthyReason(a.miss_reason) THEN {"miss_reason"} ELSE {})

\* The keys of the event cache_operation builds.
cache_operation_fields(a) ==
    {"event_type", "session_id", "query_fingerprint", "cache_hit", "cache_key_version"}
    \cup (IF a.cache_hit /\ a.cache_item_age_s # {} THEN {"cache_item_age_s"} ELSE {})
    \cup (IF a.cache_hit /\ a.ttl_remaining_s # {} THEN {"ttl_remaining_s"} ELSE {})
    \cup (IF ~a.cache_hit /\ a.ttl_assigned_s # {} THEN {"ttl_assigned_s"} ELSE {})
    \cup (IF ~a.cache_hit /\ TruthyReason(a.miss_reason) THEN {"miss_reason"} ELSE {})

\* EventBuilder.cache_operation: the event, as a mapping from its keys.
cache_operation(a) ==
    [f \in cache_operation_fields(a) |->
        IF f = "event_type" THEN "cache_operation"
        ELSE IF f = "cache_key_version" THEN "v1"
        ELSE IF f \in {"session_id", "query_fingerprint", "cache_hit"} THEN a[f]
        ELSE CHOOSE v \in a[f] : TRUE]

NoEvent == <<>>
NoEv == [args |-> <<>>, event |-> NoEvent]

(***************************************************************************)
(* State machine.                                                          *)
(***************************************************************************)
NoReq == [profession |-> <<>>, time_period |-> <<>>]
NoResult == [source |-> "none", newsletter |-> None]
IdleInv == [pc |-> "idle", op |-> "none", profession |-> <<>>, time_period |-> <<>>,
            keys |-> {}, ret |-> 0, removed |-> FALSE, raised |-> FALSE, n |-> 0,
            again |-> FALSE, inflight |-> {}]
NoKeys == <<>>
NoMain == [pc |-> "profession", profession |-> <<>>, time_period |-> <<>>, gens |-> 0]
NoUi == [pc |-> "idle", profession |-> <<>>, time_period |-> <<>>, forced |-> FALSE,
         source |-> "none"]

\* The state after the modules are imported: tools/cache.py has either built a
\* client (REDIS_URL set and ping answered) or left redis_client = None.
InitProgram ==
    /\ redis_client \in BOOLEAN
    /\ storeUp = TRUE
    /\ store = <<>>
    /\ pc = [c \in Callers |-> "idle"]
    /\ req = [c \in Callers |-> NoReq]
    /\ local = [c \in Callers |-> None]
    /\ result = [c \in Callers |-> NoResult]
    /\ invoked = [c \in Callers |-> 0]
    /\ replaced = [c \in Callers |-> None]
    /\ inv = IdleInv
    /\ calls = [c \in Callers |-> 0]
    /\ tel = NoTel
    /\ ui = NoUi
    /\ main = NoMain

Init ==
    /\ InitProgram
    /\ keyIn = NoKeys
    /\ keyOut = NoKeys
    /\ ev = NoEv

\* generate_newsletter_with_cache, entry to the cache check (lines 17-25).  The
\* call of get_cached_newsletter is outside the try block: an exception leaving
\* it would leave the gateway.
Call(c, profession, time_period) ==
    /\ pc[c] \in {"idle", "returned"}
    /\ calls[c] < MaxCalls
    /\ calls' = [calls EXCEPT ![c] = @ + 1]
    /\ req' = [req EXCEPT ![c] = [profession |-> profession, time_period |-> time_period]]
    /\ invoked' = [invoked EXCEPT ![c] = 0]
    /\ replaced' = [replaced EXCEPT ![c] = None]
    /\ local' = [local EXCEPT ![c] = None]
    /\ store' = get_cached_newsletter_store(profession, time_period)
    /\ LET cached_newsletter == get_cached_newsletter(profession, time_period)
       IN  IF cached_newsletter = Raised
           THEN /\ result' = [result EXCEPT ![c] = NoResult]
                /\ pc' = [pc EXCEPT ![c] = "raised"]
           ELSE IF Truthy(cached_newsletter)
           THEN /\ result' = [result EXCEPT ![c] =
                        [source |-> "cache", newsletter |-> cached_newsletter]]
                /\ pc' = [pc EXCEPT ![c] = "returned"]
           ELSE /\ result' = [result EXCEPT ![c] = NoResult]
                /\ pc' = [pc EXCEPT ![c] = "generate"]
    /\ UNCHANGED <<redis_client, storeUp, keyIn, keyOut, tel, ev, ui, main>>

\* Mutant: the gateway tests `newsletter is not None` and takes an empty string
\* to the cache write.
Generated_cache_empty(c, newsletter) ==
    /\ local' = [local EXCEPT ![c] = newsletter]
    /\ pc' = [pc EXCEPT ![c] = "write"]
    /\ UNCHANGED result

\* The gateway after graph.invoke returned: newsletter = result.get("newsletter", "")
\* and the test `if newsletter:` (lines 35-37, 49-55).
Generated(c, newsletter) ==
    IF Truthy(newsletter)
    THEN /\ local' = [local EXCEPT ![c] = newsletter]
         /\ pc' = [pc EXCEPT ![c] = "write"]
         /\ UNCHANGED result
    ELSE /\ result' = [result EXCEPT ![c] =
                 [source |-> "error",
                  newsletter |-> [kind |-> "message", raised |-> FALSE]]]
         /\ pc' = [pc EXCEPT ![c] = "returned"]
         /\ UNCHANGED local

\* build_graph().invoke(...) returned normally (lines 32-35, 49-55).
GenerateReturns(c, final_summary) ==
    /\ pc[c] = "generate"
    /\ invoked' = [invoked EXCEPT ![c] = @ + 1]
    /\ Generated(c, graph_invoke(req[c].profession, req[c].time_period, final_summary))
    /\ UNCHANGED <<redis_client, storeUp, store, req, replaced, calls, keyIn, keyOut, tel, ev, ui, main>>

\* graph.invoke returned a state whose "newsletter" is missing or empty: the
\* default of result.get("newsletter", "") (line 35).  The graph of
\* ai_newsletter_graph.py never does so; a replaced or stubbed generator can.
GenerateReturnsEmpty(c) ==
    /\ pc[c] = "generate"
    /\ invoked' = [invoked EXCEPT ![c] = @ + 1]
    /\ Generated(c, EmptyStr)
    /\ UNCHANGED <<redis_client, storeUp, store, req, replaced, calls, keyIn, keyOut, tel, ev, ui, main>>

\* Mutant: the cache write sits in a finally block and also runs after the
\* generator raised.
GenerateRaises_then_write(c) ==
    /\ pc[c] = "generate"
    /\ invoked' = [invoked EXCEPT ![c] = @ + 1]
    /\ pc' = [pc EXCEPT ![c] = "write"]
    /\ UNCHANGED <<redis_client, storeUp, store, req, local, result, replaced, calls,
                   keyIn, keyOut, tel, ev, ui, main>>

\* build_graph() or graph.invoke raised (lines 57-64).
GenerateRaises(c) ==
    /\ pc[c] = "generate"
    /\ invoked' = [invoked EXCEPT ![c] = @ + 1]
    /\ result' = [result EXCEPT ![c] =
            [source |-> "error", newsletter |-> [kind |-> "message", raised |-> TRUE]]]
    /\ pc' = [pc EXCEPT ![c] = "returned"]
    /\ UNCHANGED <<redis_client, storeUp, store, req, local, replaced, calls,
                   keyIn, keyOut, tel, ev, ui, main>>

\* Mutant: the gateway checks the return value of cache_newsletter and reports a
\* failed write as a failed call.
Write_fail_on_failed_write(c) ==
    /\ pc[c] = "write"
    /\ store' = cache_newsletter(req[c].profession, req[c].time_period, local[c])
    /\ replaced' = [replaced EXCEPT ![c] =
            replaced_entry(req[c].profession, req[c].time_period)]
    /\ result' = [result EXCEPT ![c] =
            IF cache_newsletter_ret
            THEN [source |-> "fresh", newsletter |-> local[c]]
            ELSE [source |-> "error",
                  newsletter |-> [kind |-> "message", raised |-> FALSE]]]
    /\ local' = [local EXCEPT ![c] = None]
    /\ pc' = [pc EXCEPT ![c] = "returned"]
    /\ UNCHANGED <<redis_client, storeUp, req, invoked, calls, keyIn, keyOut, tel, ev, ui, main>>

\* Write under a store that refuses the write of a call whose miss was read
\* before the last invalidation's DEL.
Write_guarded(c) ==
    /\ pc[c] = "write"
    /\ store' = IF c \in inv.inflight
                THEN store
                ELSE cache_newsletter(req[c].profession, req[c].time_period, local[c])
    /\ replaced' = [replaced EXCEPT ![c] =
            replaced_entry(req[c].profession, req[c].time_period)]
    /\ result' = [result EXCEPT ![c] = [source |-> "fresh", newsletter |-> local[c]]]
    /\ local' = [local EXCEPT ![c] = None]
    /\ pc' = [pc EXCEPT ![c] = "returned"]
    /\ UNCHANGED <<redis_client, storeUp, req, invoked, calls, keyIn, keyOut, tel, ev, ui, main>>

\* cache_newsletter(...) and the "fresh" return (lines 37-48).
Write(c) ==
    /\ pc[c] = "write"
    /\ store' = cache_newsletter(req[c].profession, req[c].time_period, local[c])
    /\ replaced' = [replaced EXCEPT ![c] =
            replaced_entry(req[c].profession, req[c].time_period)]
    /\ result' = [result EXCEPT ![c] = [source |-> "fresh", newsletter |-> local[c]]]
    /\ local' = [local EXCEPT ![c] = None]
    /\ pc' = [pc EXCEPT ![c] = "returned"]
    /\ UNCHANGED <<redis_client, storeUp, req, invoked, calls, keyIn, keyOut, tel, ev, ui, main>>

\* The gateway calls that have read a miss and not yet written (lines 19-45 of
\* cached_newsletter.py) at the moment an invalidation sends its DEL; recorded in
\* inv.inflight.
InFlight == {c \in Callers : pc[c] \in {"generate", "write"}}

\* clear_cache_for_user(profession, time_period): one DEL command.
ClearUser(profession, time_period) ==
    /\ inv.pc = "idle"
    /\ store' = clear_cache_for_user(profession, time_period)
    /\ LET r == clear_cache_for_user_ret(profession, time_period)
       IN  inv' = [pc |-> "idle", op |-> "user", profession |-> profession,
                   time_period |-> time_period,
                   keys |-> {get_cache_key(profession, time_period)},
                   ret |-> 0, removed |-> r.ret, raised |-> r.raised, n |-> 1 - inv.n,
                   again |-> /\ inv.op = "user"
                             /\ inv.profession = profession
                             /\ inv.time_period = time_period
                             /\ inv.removed,
                   inflight |-> InFlight]
    /\ UNCHANGED <<redis_client, storeUp, calls, keyIn, keyOut, tel, ev, ui, main>>

\* clear_cache_for_profession(profession), up to and including the KEYS
\* command: without a client, on an error, or with no matching key it returns 0.
ClearProfessionKeys(profession) ==
    /\ inv.pc = "idle"
    /\ LET keys == clear_cache_for_profession_keys(profession)
       IN  inv' = [pc |-> IF keys # {} THEN "delete" ELSE "idle",
                   op |-> "profession", profession |-> profession,
                   time_period |-> <<>>, keys |-> keys,
                   ret |-> 0, removed |-> FALSE, raised |-> FALSE, n |-> 1 - inv.n,
                   again |-> /\ inv.op = "profession"
                             /\ inv.profession = profession
                             /\ inv.ret > 0,
                   inflight |-> {}]
    /\ UNCHANGED <<redis_client, storeUp, store, calls, keyIn, keyOut, tel, ev, ui, main>>

\* clear_cache_for_profession, the DEL command over the listed keys and the return.
ClearProfessionDelete ==
    /\ inv.pc = "delete"
    /\ store' = clear_cache_for_profession(inv.keys)
    /\ LET r == clear_cache_for_profession_ret(inv.keys)
       IN  inv' = [inv EXCEPT !.pc = "idle", !.ret = r.ret, !.raised = r.raised,
                              !.inflight = InFlight]
    /\ UNCHANGED <<redis_client, storeUp, calls, keyIn, keyOut, tel, ev, ui, main>>

\* Time passes on the Redis server: every entry ages by d seconds and the
\* entries whose TTL has elapsed are gone.  The advances explored are the ones
\* an entry can tell apart: up to one second before the earliest expiry, and
\* then that last second.
Remaining(k) == store[k].ttl - store[k].age

MinRemaining ==
    CHOOSE r \in {Remaining(k) : k \in DOMAIN store} :
        \A k \in DOMAIN store : r <= Remaining(k)

Deltas ==
    IF DOMAIN store = {} THEN {}
    ELSE IF MinRemaining > 1 THEN {MinRemaining - 1} ELSE {1}

Expire(d) ==
    [k \in {x \in DOMAIN store : store[x].age + d < store[x].ttl} |->
        [store[k] EXCEPT !.age = @ + d]]

Tick(d) ==
    /\ store' = Expire(d)
    /\ UNCHANGED <<redis_client, storeUp, pc, req, local, result, invoked, replaced, inv,
                   calls, keyIn, keyOut, tel, ev, ui, main>>

\* The server stops answering (network loss, timeout) and answers again.
StoreGoesDown ==
    /\ storeUp
    /\ storeUp' = FALSE
    /\ UNCHANGED <<redis_client, store, pc, req, local, result, invoked, replaced, inv,
                   calls, keyIn, keyOut, tel, ev, ui, main>>

StoreComesBack ==
    /\ ~storeUp
    /\ storeUp' = TRUE
    /\ UNCHANGED <<redis_client, store, pc, req, local, result, invoked, replaced, inv,
                   calls, keyIn, keyOut, tel, ev, ui, main>>

Busy == \E c \in Callers : pc[c] \in {"generate", "write"}

\* The single-threaded program holds one return value at a time: starting an
\* operation drops the return value of the previous one.
ForgetInvalidation == inv' = IdleInv

ForgetCalls ==
    /\ pc' = [c \in Callers |-> "idle"]
    /\ req' = [c \in Callers |-> NoReq]
    /\ local' = [c \in Callers |-> None]
    /\ result' = [c \in Callers |-> NoResult]
    /\ invoked' = [c \in Callers |-> 0]
    /\ replaced' = [c \in Callers |-> None]

\* The single-threaded program: one caller, which makes the gateway calls and
\* the invalidation calls one after the other, while time passes on the server.
InGateway(step) == inv.pc = "idle" /\ ForgetInvalidation /\ step

InInvalidation(step) == ~Busy /\ ForgetCalls /\ step

Next ==
    \/ \E c \in SeqCallers, r \in Requests : InGateway(Call(c, r[1], r[2]))
    \/ \E c \in SeqCallers, s \in Summaries : InGateway(GenerateReturns(c, s))
    \/ \E c \in SeqCallers : InGateway(GenerateRaises(c))
    \/ \E c \in SeqCallers : InGateway(Write(c))
    \/ \E r \in Requests : InInvalidation(ClearUser(r[1], r[2]))
    \/ \E p \in Professions : InInvalidation(ClearProfessionKeys(p))
    \/ InInvalidation(ClearProfessionDelete)
    \/ \E d \in Deltas : Tick(d)

Spec == Init /\ [][Next]_vars

\* The same program with a store that can stop answering at any moment.
NextFault == Next \/ StoreGoesDown \/ StoreComesBack

SpecFault == Init /\ [][NextFault]_vars

(***************************************************************************)
(* The gateway in front of the graph with its search and LLM steps: a run  *)
(* of the graph is the outcome of its two searches and three LLM calls.    *)
(***************************************************************************)
AllRuns ==
    [news_search : {"results", "none"}, news_llm : {"ok", "raises"},
     tools_search : {"results", "none"}, tools_llm : {"ok", "raises"},
     select_llm : {"ok", "raises"}]

Failures(run) ==
    (IF run.news_search = "none" THEN 1 ELSE 0)
    + (IF run.news_search = "results" /\ run.news_llm = "raises" THEN 1 ELSE 0)
    + (IF run.tools_search = "none" THEN 1 ELSE 0)
    + (IF run.tools_search = "results" /\ run.tools_llm = "raises" THEN 1 ELSE 0)
    + (IF run.select_llm = "raises" THEN 1 ELSE 0)

\* The runs explored: at most one step comes back without a result, and an LLM
\* call that is not reached is not counted twice.
GraphRuns ==
    {run \in AllRuns :
        /\ Failures(run) <= 1
        /\ run.news_search = "none" => run.news_llm = "ok"
        /\ run.tools_search = "none" => run.tools_llm = "ok"}

\* The final_summary of one run: both searches, then combine_and_select.
final_summary_of(run) ==
    combine_and_select(
        <<search_and_summarize("news", run.news_search, run.news_llm),
          search_and_summarize("tools", run.tools_search, run.tools_llm)>>,
        run.select_llm)

RequestsGraph == {<<data, Day>>, <<data, Week>>}

NextGraph ==
    \/ \E c \in SeqCallers, r \in RequestsGraph : InGateway(Call(c, r[1], r[2]))
    \/ \E c \in SeqCallers, run \in GraphRuns :
            InGateway(GenerateReturns(c, final_summary_of(run)))
    \/ \E c \in SeqCallers : InGateway(GenerateRaises(c))
    \/ \E c \in SeqCallers : InGateway(Write(c))
    \/ \E d \in Deltas : Tick(d)

SpecGraph == Init /\ [][NextGraph]_vars

(***************************************************************************)
(* Two callers inside generate_newsletter_with_cache at the same time      *)
(* (threads or processes sharing the Redis server): their steps interleave *)
(* freely.  The generator hands each invocation one of two contents.       *)
(***************************************************************************)
RequestsConc == {<<data, Day>>, <<data, Week>>}

SummariesConc == {"s1", "s2"}

\* The calls started by all callers together stay within the bound.
CallBudget == calls["c1"] + calls["c2"] < MaxCalls

NextConc ==
    \/ \E c \in Callers, r \in RequestsConc :
            CallBudget /\ Call(c, r[1], r[2]) /\ UNCHANGED inv
    \/ \E c \in Callers, s \in SummariesConc : GenerateReturns(c, s) /\ UNCHANGED inv
    \/ \E c \in Callers : GenerateRaises(c) /\ UNCHANGED inv
    \/ \E c \in Callers : Write(c) /\ UNCHANGED inv
    \/ \E d \in Deltas : Tick(d)

SpecConc == Init /\ [][NextConc]_vars

(***************************************************************************)
(* The telemetry emitter next to the cache: the program creates the global *)
(* emitter once and emits events and batches while gateway calls go on.    *)
(***************************************************************************)
CacheVars == <<redis_client, storeUp, store, pc, req, local, result, invoked,
               replaced, inv, calls, keyIn, keyOut>>

\* get_telemetry() for the first time.
GetTelemetry(aws_available, telemetry_enabled, stream_name, client_ok) ==
    /\ ~tel.made
    /\ tel' = TelemetryEmitter(aws_available, telemetry_enabled, stream_name, client_ok)
    /\ UNCHANGED <<CacheVars, ev, ui, main>>

\* The emitter's fields stay; the outcome of the call is recorded.
Outcome(op, r, given) ==
    [tel EXCEPT !.op = op, !.ret = r.ret, !.raised = r.raised,
                !.delivered = r.delivered, !.lost = r.lost, !.given = given]

EmitEvent(event, sink) ==
    /\ tel.made
    /\ tel' = Outcome("emit_event", emit_event(tel, event, sink), 1)
    /\ UNCHANGED <<CacheVars, ev, ui, main>>

EmitBatch(batch) ==
    /\ tel.made
    /\ tel' = Outcome("emit_batch", emit_batch(tel, batch), Len(batch))
    /\ UNCHANGED <<CacheVars, ev, ui, main>>

RequestsTel == {<<data, Day>>}

NextTelemetry ==
    \/ \E c \in SeqCallers, r \in RequestsTel : InGateway(Call(c, r[1], r[2]))
    \/ \E c \in SeqCallers, s \in Summaries : InGateway(GenerateReturns(c, s))
    \/ \E c \in SeqCallers : InGateway(GenerateRaises(c))
    \/ \E c \in SeqCallers : InGateway(Write(c))
    \/ \E d \in Deltas : Tick(d)
    \/ \E a, e, n, k \in BOOLEAN : GetTelemetry(a, e, n, k)
    \/ \E event \in Events, sink \in Sinks : EmitEvent(event, sink)
    \/ \E batch \in Batches : EmitBatch(batch)

SpecTelemetry == Init /\ [][NextTelemetry]_vars

(***************************************************************************)
(* The gateway called with any time_period string: the function accepts    *)
(* what its caller passes, including a period that contains the separator. *)
(***************************************************************************)
RequestsAny ==
    {<<data, Day>>, <<DataCap, Day>>, <<data, Week>>, <<data_scientist, Day>>,
     <<data, ScientistDay>>}

NextAny ==
    \/ \E c \in SeqCallers, r \in RequestsAny : InGateway(Call(c, r[1], r[2]))
    \/ \E c \in SeqCallers, s \in Summaries : InGateway(GenerateReturns(c, s))
    \/ \E c \in SeqCallers : InGateway(GenerateRaises(c))
    \/ \E c \in SeqCallers : InGateway(Write(c))
    \/ \E d \in Deltas : Tick(d)

SpecAny == Init /\ [][NextAny]_vars

\* An invalidation call racing with gateway calls: the invalidation runs in
\* its own thread of control, its KEYS and DEL commands interleave freely with
\* the read, the generation and the write of a gateway call.
CallerFrame == UNCHANGED <<pc, req, local, result, invoked, replaced>>

NextRace ==
    \/ \E c \in SeqCallers, r \in RequestsConc : Call(c, r[1], r[2]) /\ UNCHANGED inv
    \/ \E c \in SeqCallers, s \in Summaries : GenerateReturns(c, s) /\ UNCHANGED inv
    \/ \E c \in SeqCallers : GenerateRaises(c) /\ UNCHANGED inv
    \/ \E c \in SeqCallers : Write(c) /\ UNCHANGED inv
    \/ \E r \in RequestsConc : ClearUser(r[1], r[2]) /\ CallerFrame
    \/ \E r \in RequestsConc : ClearProfessionKeys(r[1]) /\ CallerFrame
    \/ ClearProfessionDelete /\ CallerFrame
    \/ \E d \in Deltas : Tick(d)

SpecRace == Init /\ [][NextRace]_vars

\* The gateway in front of any generator: the same program, with a generator
\* that may also hand back an empty newsletter.
NextStub ==
    \/ Next
    \/ \E c \in SeqCallers : InGateway(GenerateReturnsEmpty(c))

SpecStub == Init /\ [][NextStub]_vars

(***************************************************************************)
(* The key builder on its own: two (profession, time_period) pairs are     *)
(* drawn and get_cache_key is applied to each.                             *)
(***************************************************************************)
KeyInputs == Professions \X KeyPeriods

KeyInit ==
    /\ InitProgram
    /\ keyIn \in KeyInputs \X KeyInputs
    /\ keyOut = NoKeys
    /\ ev = NoEv

BuildKeys ==
    /\ keyOut = NoKeys
    /\ keyOut' = <<get_cache_key(keyIn[1][1], keyIn[1][2]),
                   get_cache_key(keyIn[2][1], keyIn[2][2])>>
    /\ UNCHANGED <<redis_client, storeUp, store, pc, req, local, result, invoked, replaced,
                   inv, calls, keyIn, tel, ev, ui, main>>

KeySpec == KeyInit /\ [][BuildKeys]_vars

(***************************************************************************)
(* interactive_agent.py, generate_newsletter_interactive: the cache check, *)
(* the user's choice on a hit, the single-entry clear and the gateway      *)
(* call, with a server that can stop answering between any two of them.    *)
(***************************************************************************)
RequestsInteractive == {<<data, Day>>, <<data, Week>>}

\* The statements of generate_newsletter_interactive leave everything but the
\* store, the two callers' variables and ui alone.
InteractiveFrame == UNCHANGED <<redis_client, storeUp, calls, keyIn, keyOut, tel, ev>>

\* cached_result = get_cached_newsletter(profession, time_period) (lines 219-224).
InteractiveRead(profession, time_period) ==
    /\ ui.pc \in {"idle", "done"}
    /\ ~Busy
    /\ inv.pc = "idle"
    /\ ForgetCalls
    /\ ForgetInvalidation
    /\ store' = get_cached_newsletter_store(profession, time_period)
    /\ ui' = [pc |-> IF Truthy(get_cached_newsletter(profession, time_period))
                     THEN "ask" ELSE "generate",
              profession |-> profession, time_period |-> time_period,
              forced |-> FALSE, source |-> "none"]
    /\ InteractiveFrame

\* ask_fresh_results() returned False: the cached result is returned (232-240).
ChooseCache ==
    /\ ui.pc = "ask"
    /\ ui' = [ui EXCEPT !.pc = "done", !.source = "cache"]
    /\ UNCHANGED <<CacheVars, tel, ev, main>>

\* ask_fresh_results() returned "quit" (lines 228-229).
ChooseQuit ==
    /\ ui.pc = "ask"
    /\ ui' = [ui EXCEPT !.pc = "done", !.source = "quit"]
    /\ UNCHANGED <<CacheVars, tel, ev, main>>

\* ask_fresh_results() returned True: the entry is to be cleared (241-244).
ChooseFresh ==
    /\ ui.pc = "ask"
    /\ ui' = [ui EXCEPT !.pc = "clear", !.forced = TRUE]
    /\ UNCHANGED <<CacheVars, tel, ev, main>>

\* clear_cache_for_user(profession, time_period) (line 244).
InteractiveClear ==
    /\ ui.pc = "clear"
    /\ inv.op = "none"
    /\ InInvalidation(ClearUser(ui.profession, ui.time_period))

\* clear_cache_for_user returned; its value is dropped.
InteractiveCleared ==
    /\ ui.pc = "clear"
    /\ inv.op = "user"
    /\ ui' = [ui EXCEPT !.pc = "generate"]
    /\ UNCHANGED <<CacheVars, tel, ev, main>>

\* generate_newsletter_with_cache(profession, time_period) is entered (line 250).
InteractiveCall(c) ==
    /\ ui.pc = "generate"
    /\ pc[c] = "idle"
    /\ InGateway(Call(c, ui.profession, ui.time_period))

\* The gateway's dict is returned to main (line 250).
InteractiveReturn(c) ==
    /\ ui.pc = "generate"
    /\ pc[c] = "returned"
    /\ ui' = [ui EXCEPT !.pc = "done", !.source = result[c].source]
    /\ UNCHANGED <<CacheVars, tel, ev, main>>

NextInteractive ==
    \/ \E r \in RequestsInteractive : InteractiveRead(r[1], r[2]) /\ UNCHANGED main
    \/ ChooseCache
    \/ ChooseQuit
    \/ ChooseFresh
    \/ InteractiveClear
    \/ InteractiveCleared
    \/ \E c \in SeqCallers : InteractiveCall(c)
    \/ \E c \in SeqCallers, s \in Summaries : InGateway(GenerateReturns(c, s))
    \/ \E c \in SeqCallers : InGateway(GenerateRaises(c))
    \/ \E c \in SeqCallers : InGateway(Write(c))
    \/ \E c \in SeqCallers : InteractiveReturn(c)
    \/ \E d \in Deltas : Tick(d)
    \/ StoreGoesDown
    \/ StoreComesBack

SpecInteractive == Init /\ [][NextInteractive]_vars

(***************************************************************************)
(* interactive_agent.py: main, the prompts it reads its inputs from, and   *)
(* tools/profession_validator.py.                                          *)
(***************************************************************************)
\* str.strip(), for the blank character.
strip(s) ==
    LET idx == {i \in 1..Len(s) : s[i] # " "}
    IN  IF idx = {} THEN <<>>
        ELSE SubSeq(s, CHOOSE i \in idx : \A j \in idx : i <= j,
                       CHOOSE i \in idx : \A j \in idx : i >= j)

\* str.upper()
upper(s) == [i \in 1..Len(s) |-> UpperChar(s[i])]

\* A returned string; a prompt that has not returned yet and asks again.
Str(s) == [kind |-> "str", value |-> s]
Asking == [kind |-> "asking"]

new_profession == <<"n","e","w","_","p","r","o","f","e","s","s","i","o","n">>
NONE == <<"N","O","N","E">>
NA == <<"N","/","A">>

\* What the user types at the profession prompt, at a numbered prompt and at
\* the post-answer menu.
RawProfessions == {<<"Q">>, <<" ">>, <<"d">>, DataCap, <<" ","d","a","t","a"," ">>}
Choices == {<<"1">>, <<"2">>, <<"3">>, <<"Q">>, <<" ","1">>, <<"x">>}
MenuChoices == {<<"A">>, <<"b">>, <<"c">>, <<"q">>, <<"x">>}

\* What the validation LLM answers: an exception, or a VALID line and the
\* text of its CORRECTED line.
LLMReplies ==
    {Raised} \cup
    [kind : {"reply"}, is_valid : BOOLEAN,
     corrected_text : {NONE, NA, <<>>, DataCap, title(data_scientist)}]

\* validate_profession / validate_and_correct_profession: (is_valid, corrected).
validate_and_correct_profession(profession, llm) ==
    IF profession = <<>> \/ Len(strip(profession)) < 2
    THEN [is_valid |-> FALSE, corrected |-> profession]
    ELSE IF llm.kind = "raised"
    THEN [is_valid |-> TRUE, corrected |-> profession]
    ELSE [is_valid |-> llm.is_valid,
          corrected |-> IF \/ upper(llm.corrected_text) = NONE
                           \/ lower(llm.corrected_text) = lower(profession)
                        THEN profession
                        ELSE llm.corrected_text]

\* Mutant: the accepted profession is returned as typed.
get_user_profession_raw(raw, llm, choice) ==
    LET profession == strip(raw)
        v == validate_and_correct_profession(profession, llm)
    IN  IF lower(profession) = <<"q">> THEN None
        ELSE IF profession = <<>> THEN Asking
        ELSE IF ~v.is_valid THEN Asking
        ELSE IF /\ lower(v.corrected) # lower(profession)
                /\ lower(v.corrected) \notin {lower(NA), lower(NONE), <<>>}
        THEN IF lower(strip(choice)) = <<"q">> THEN None
             ELSE IF strip(choice) = <<"1">> THEN Str(v.corrected)
             ELSE IF strip(choice) = <<"2">> THEN Str(profession)
             ELSE Asking
        ELSE Str(profession)

\* get_user_profession(): one pass of its loop over the typed profession, the
\* validator's answer and the answer to "Did you mean ...?".
get_user_profession(raw, llm, choice) ==
    LET profession == strip(raw)
        v == validate_and_correct_profession(profession, llm)
    IN  IF lower(profession) = <<"q">> THEN None
        ELSE IF profession = <<>> THEN Asking
        ELSE IF ~v.is_valid THEN Asking
        ELSE IF /\ lower(v.corrected) # lower(profession)
                /\ lower(v.corrected) \notin {lower(NA), lower(NONE), <<>>}
        THEN IF lower(strip(choice)) = <<"q">> THEN None
             ELSE IF strip(choice) = <<"1">> THEN Str(lower(v.corrected))
             ELSE IF strip(choice) = <<"2">> THEN Str(lower(profession))
             ELSE Asking
        ELSE Str(lower(profession))

\* get_user_time_period()
get_user_time_period(choice) ==
    IF lower(strip(choice)) = <<"q">> THEN None
    ELSE IF strip(choice) = <<"1">> THEN Str(Day)
    ELSE IF strip(choice) = <<"2">> THEN Str(Week)
    ELSE IF strip(choice) = <<"3">> THEN Str(Month)
    ELSE Asking

\* handle_insufficient_results(profession, time_period)
handle_insufficient_results(choice) ==
    IF lower(strip(choice)) = <<"q">> THEN "quit"
    ELSE IF strip(choice) = <<"1">> THEN "new_profession"
    ELSE IF strip(choice) = <<"2">> THEN "expand_time"
    ELSE "asking"

\* Mutant: the menu shown for "week" offers the week again.
get_expanded_time_period_same(current_period, choice) ==
    IF current_period = Day
    THEN IF lower(strip(choice)) = <<"q">> THEN None
         ELSE IF strip(choice) = <<"1">> THEN Str(Week)
         ELSE IF strip(choice) = <<"2">> THEN Str(Month)
         ELSE Asking
    ELSE IF current_period = Week
    THEN IF lower(strip(choice)) = <<"q">> THEN None
         ELSE IF strip(choice) = <<"1">> THEN Str(Week)
         ELSE Asking
    ELSE IF strip(choice) = <<"1">> THEN Str(new_profession)
         ELSE IF strip(choice) = <<"2">> THEN None
         ELSE Asking

\* get_expanded_time_period(current_period)
get_expanded_time_period(current_period, choice) ==
    IF current_period = Day
    THEN IF lower(strip(choice)) = <<"q">> THEN None
         ELSE IF strip(choice) = <<"1">> THEN Str(Week)
         ELSE IF strip(choice) = <<"2">> THEN Str(Month)
         ELSE Asking
    ELSE IF current_period = Week
    THEN IF lower(strip(choice)) = <<"q">> THEN None
         ELSE IF strip(choice) = <<"1">> THEN Str(Month)
         ELSE Asking
    ELSE IF strip(choice) = <<"1">> THEN Str(new_profession)
         ELSE IF strip(choice) = <<"2">> THEN None
         ELSE Asking

\* show_post_answer_menu(profession, time_period)
show_post_answer_menu(choice) ==
    IF lower(strip(choice)) = <<"a">> THEN "new_profession"
    ELSE IF lower(strip(choice)) = <<"b">> THEN "fresh_results"
    ELSE IF lower(strip(choice)) = <<"c">> THEN "detailed_info"
    ELSE IF lower(strip(choice)) = <<"q">> THEN "quit"
    ELSE "asking"

\* The final summaries the selection LLM returns to main's graph run: a
\* summary, or the literal text main compares with.
FinalSummaries == Summaries \cup {"insufficient_results"}

\* The statements of main leave everything but its own locals alone.
MainFrame == UNCHANGED <<CacheVars, tel, ev, ui>>

\* result.get("final_summary") == "insufficient_results" (lines 354, 396, 420):
\* only the dict of a fresh generation carries the key "final_summary".
InsufficientResults ==
    /\ ui.source = "fresh"
    /\ \E c \in SeqCallers :
          /\ pc[c] = "returned"
          /\ result[c].source = "fresh"
          /\ result[c].newsletter.final_summary = "insufficient_results"

\* Everything one pass of get_user_profession can come to, over what the user
\* types and what the validator answers.
UserProfessions ==
    {get_user_profession(raw, llm, choice) :
        raw \in RawProfessions, llm \in LLMReplies, choice \in Choices}

\* profession = get_user_profession() (lines 331-335).
MainProfession(profession) ==
    /\ main.pc = "profession"
    /\ main' =
           IF profession = Asking THEN main
           ELSE IF profession = None THEN [main EXCEPT !.pc = "done"]
           ELSE [pc |-> "period", profession |-> profession.value,
                 time_period |-> <<>>, gens |-> 0]
    /\ MainFrame

\* time_period = get_user_time_period() (lines 337-341).
MainTimePeriod(choice) ==
    /\ main.pc = "period"
    /\ LET time_period == get_user_time_period(choice)
       IN  main' = IF time_period = Asking THEN main
                   ELSE IF time_period = None THEN [main EXCEPT !.pc = "done"]
                   ELSE [main EXCEPT !.pc = "generate",
                                     !.time_period = time_period.value]
    /\ MainFrame

\* result = generate_newsletter_interactive(profession, time_period) is entered
\* in the retry loop (line 346).
MainGenerate ==
    /\ main.pc = "generate"
    /\ InteractiveRead(main.profession, main.time_period)
    /\ main' = [main EXCEPT !.pc = "wait", !.gens = @ + 1]

\* generate_newsletter_interactive returned to the retry loop (lines 348-383).
MainResult ==
    /\ main.pc = "wait"
    /\ ui.pc = "done"
    /\ main' = [main EXCEPT !.pc = IF ui.source = "quit" THEN "done"
                                   ELSE IF InsufficientResults THEN "insufficient"
                                   ELSE "menu"]
    /\ MainFrame

\* action = handle_insufficient_results(profession, time_period) (lines 355-362).
MainInsufficient(choice) ==
    /\ main.pc = "insufficient"
    /\ LET action == handle_insufficient_results(choice)
       IN  main' = IF action = "quit" THEN [main EXCEPT !.pc = "done"]
                   ELSE IF action = "new_profession" THEN [main EXCEPT !.pc = "profession"]
                   ELSE IF action = "expand_time" THEN [main EXCEPT !.pc = "expand"]
                   ELSE main
    /\ MainFrame

\* expanded_period = get_expanded_time_period(time_period) (lines 363-378).
MainExpand(choice) ==
    /\ main.pc = "expand"
    /\ LET expanded_period == get_expanded_time_period(main.time_period, choice)
       IN  main' = IF expanded_period = Asking THEN main
                   ELSE IF expanded_period = None THEN [main EXCEPT !.pc = "done"]
                   ELSE IF expanded_period.value = new_profession
                   THEN [main EXCEPT !.pc = "profession"]
                   ELSE [main EXCEPT !.pc = "generate",
                                     !.time_period = expanded_period.value]
    /\ MainFrame

\* next_action = show_post_answer_menu(profession, time_period) (lines 399-455).
MainMenu(choice) ==
    /\ main.pc = "menu"
    /\ LET next_action == show_post_answer_menu(choice)
       IN  main' = IF next_action = "new_profession" THEN [main EXCEPT !.pc = "profession"]
                   ELSE IF next_action = "fresh_results" THEN [main EXCEPT !.pc = "menu_fresh"]
                   ELSE IF next_action = "quit" THEN [main EXCEPT !.pc = "done"]
                   ELSE main
    /\ MainFrame

\* clear_cache_for_user(profession, time_period) of the menu (line 409).
MenuClear ==
    /\ main.pc = "menu_fresh"
    /\ inv.op = "none"
    /\ InInvalidation(ClearUser(main.profession, main.time_period))

\* clear_cache_for_user returned; its value is dropped.
MenuCleared ==
    /\ main.pc = "menu_fresh"
    /\ inv.op = "user"
    /\ main' = [main EXCEPT !.pc = "menu_generate"]
    /\ MainFrame

\* result = generate_newsletter_interactive(profession, time_period) is entered
\* from the menu (lines 411-413).
MenuGenerate ==
    /\ main.pc = "menu_generate"
    /\ InteractiveRead(main.profession, main.time_period)
    /\ main' = [main EXCEPT !.pc = "menu_wait"]

\* generate_newsletter_interactive returned to the menu (lines 415-420, 437-445).
MenuResult ==
    /\ main.pc = "menu_wait"
    /\ ui.pc = "done"
    /\ main' = [main EXCEPT !.pc = IF ui.source = "quit" THEN "done"
                                   ELSE IF InsufficientResults THEN "menu_insufficient"
                                   ELSE "menu"]
    /\ MainFrame

\* action = handle_insufficient_results(...) of the menu (lines 421-436):
\* "expand_time" shows the menu again.
MenuInsufficient(choice) ==
    /\ main.pc = "menu_insufficient"
    /\ LET action == handle_insufficient_results(choice)
       IN  main' = IF action = "quit" THEN [main EXCEPT !.pc = "done"]
                   ELSE IF action = "new_profession" THEN [main EXCEPT !.pc = "profession"]
                   ELSE IF action = "expand_time" THEN [main EXCEPT !.pc = "menu"]
                   ELSE main
    /\ MainFrame

NextMain ==
    \/ \E profession \in UserProfessions : MainProfession(profession)
    \/ \E choice \in Choices : MainTimePeriod(choice)
    \/ MainGenerate
    \/ ChooseCache
    \/ ChooseQuit
    \/ ChooseFresh
    \/ InteractiveClear
    \/ InteractiveCleared
    \/ \E c \in SeqCallers : InteractiveCall(c)
    \/ \E c \in SeqCallers, s \in FinalSummaries : InGateway(GenerateReturns(c, s))
    \/ \E c \in SeqCallers : InGateway(GenerateRaises(c))
    \/ \E c \in SeqCallers : InGateway(Write(c))
    \/ \E c \in SeqCallers : InteractiveReturn(c)
    \/ MainResult
    \/ \E choice \in Choices : MainInsufficient(choice)
    \/ \E choice \in Choices : MainExpand(choice)
    \/ \E choice \in MenuChoices : MainMenu(choice)
    \/ MenuClear
    \/ MenuCleared
    \/ MenuGenerate
    \/ MenuResult
    \/ \E choice \in Choices : MenuInsufficient(choice)

SpecMain == Init /\ [][NextMain]_vars

(***************************************************************************)
(* EventBuilder.cache_operation on its own: the arguments are drawn and    *)
(* the event is built.                                                     *)
(***************************************************************************)
EventInit ==
    /\ InitProgram
    /\ keyIn = NoKeys
    /\ keyOut = NoKeys
    /\ ev \in [args : EventArgs, event : {NoEvent}]

BuildEvent ==
    /\ ev.event = NoEvent
    /\ ev' = [ev EXCEPT !.event = cache_operation(ev.args)]
    /\ UNCHANGED <<CacheVars, tel, ui, main>>

EventSpec == EventInit /\ [][BuildEvent]_vars

(***************************************************************************)
(* Properties.                                                             *)
(***************************************************************************)
\* Caller c starts a gateway call in this step.
CallStep(c) == calls'[c] = calls[c] + 1

\* The arguments of caller c's call, as a pair.
ReqPair(r) == <<r.profession, r.time_period>>

\* Two (profession, time_period) pairs name the same request: the professions
\* are equal ignoring case and the periods are equal.
SameRequest(a, b) == lower(a[1]) = lower(b[1]) /\ a[2] = b[2]

\* C1: if a value written for (P, T) is still in the store when
\* generate_newsletter_with_cache(P, T) is called, the call returns that value
\* with source "cache" at once, without invoking the generator.
C1_HitRoundTrip ==
    [][\A c \in Callers : \A k \in DOMAIN store :
          (CallStep(c) /\ store[k].by = ReqPair(req'[c]))
          => /\ pc'[c] = "returned"
             /\ result'[c] = [source |-> "cache", newsletter |-> store[k].value]
             /\ invoked'[c] = 0]_vars

\* A later call for the request that wrote an entry has been served from the cache.
C1_Witness ==
    \E c \in Callers : \E k \in DOMAIN store :
        /\ pc[c] = "returned"
        /\ result[c] = [source |-> "cache", newsletter |-> store[k].value]
        /\ store[k].by = ReqPair(req[c])
        /\ calls[c] >= 2

\* C2: a call that finds no entry for (P, T) goes on to the generator; the
\* generator is invoked once and never again in that call; when it returns a
\* newsletter, that newsletter is written under get_cache_key(P, T) and returned
\* with source "fresh".
C2_MissGenerates ==
    [][\A c \in Callers :
          /\ (CallStep(c)
                 /\ ~\E k \in DOMAIN store : SameRequest(store[k].by, ReqPair(req'[c])))
             => (pc'[c] = "generate" /\ invoked'[c] = 0 /\ store' = store)
          /\ (pc[c] = "generate" /\ pc'[c] # "generate")
             => /\ invoked[c] = 0 /\ invoked'[c] = 1
                /\ pc'[c] \in {"write", "returned"}
                /\ pc'[c] = "write" =>
                       \E s \in Summaries :
                           local'[c] = graph_invoke(req[c].profession,
                                                    req[c].time_period, s)
                /\ store' = store
          /\ (pc[c] = "write" /\ pc'[c] # "write")
             => /\ pc'[c] = "returned"
                /\ invoked'[c] = 1
                /\ result'[c] = [source |-> "fresh", newsletter |-> local[c]]
                /\ redis_client =>
                       LET key == get_cache_key(req[c].profession, req[c].time_period)
                       IN  /\ key \in DOMAIN store'
                           /\ store'[key].value = local[c]
                           /\ store'[key].age = 0
                           /\ \A k \in DOMAIN store' \ {key} :
                                  k \in DOMAIN store /\ store'[k] = store[k]]_vars

\* A miss has run the generator once, stored its output and returned it as fresh.
C2_Witness ==
    \E c \in Callers :
        /\ pc[c] = "returned"
        /\ invoked[c] = 1
        /\ result[c].source = "fresh"
        /\ get_cache_key(req[c].profession, req[c].time_period) \in DOMAIN store
        /\ store[get_cache_key(req[c].profession, req[c].time_period)].value
               = result[c].newsletter

\* C3: a gateway call, hit or miss, leaves every entry's value, TTL and age as
\* they were, and an entry is served only while its age is below the TTL it
\* was written with.
C3_NoTtlRefresh ==
    [][\A c \in Callers :
          CallStep(c) =>
              /\ store' = store
              /\ result'[c].source = "cache" =>
                     \E k \in DOMAIN store :
                         /\ SameRequest(store[k].by, ReqPair(req'[c]))
                         /\ store[k].value = result'[c].newsletter
                         /\ store[k].age < store[k].ttl]_vars

\* An entry has been served in the last second of its life and has kept its age.
C3_Witness ==
    \E c \in Callers : \E k \in DOMAIN store :
        /\ pc[c] = "returned"
        /\ result[c].source = "cache"
        /\ store[k].by = ReqPair(req[c])
        /\ store[k].age = store[k].ttl - 1

\* C4: cache_newsletter stores the entry with a TTL of 28800 s for "day",
\* 172800 s for "week", 604800 s for "month" and 28800 s for any other period,
\* and the write happens in each of these cases.
C4_TtlCorrectness ==
    [][\A c \in Callers :
          (pc[c] = "write" /\ pc'[c] # "write" /\ redis_client)
          => LET key == get_cache_key(req[c].profession, req[c].time_period)
                 t == req[c].time_period
             IN  /\ key \in DOMAIN store'
                 /\ store'[key].age = 0
                 /\ store'[key].ttl = IF t = Day THEN 28800
                                      ELSE IF t = Week THEN 172800
                                      ELSE IF t = Month THEN 604800
                                      ELSE 28800]_vars

\* An entry written for an unrecognized period and one written for "month" are
\* in the store with their TTLs.
C4_Witness ==
    \E k1, k2 \in DOMAIN store :
        /\ store[k1].by[2] = Year /\ store[k1].ttl = 28800
        /\ store[k2].by[2] = Month /\ store[k2].ttl = 604800

\* Some entry written for the request (P, T), professions compared ignoring case.
HasEntry(P, T) == \E k \in DOMAIN store : SameRequest(store[k].by, <<P, T>>)

\* The DEL command of clear_cache_for_profession runs in this step.
ClearProfessionStep == inv.pc = "delete" /\ inv'.pc = "idle"

\* clear_cache_for_user runs in this step.
ClearUserStep == inv'.op = "user" /\ inv'.n # inv.n

\* C5: with entries cached for (P, "day"), (P, "week") and (Q, "day"), P and Q
\* different ignoring case, clear_cache_for_profession(P) removes every entry
\* of P and leaves every other entry in place with its value and expiration.
C5_ScopedInvalidation ==
    [][ClearProfessionStep =>
          \A Q \in Professions :
              (/\ lower(Q) # lower(inv.profession)
               /\ HasEntry(inv.profession, Day)
               /\ HasEntry(inv.profession, Week)
               /\ HasEntry(Q, Day))
              => \A k \in DOMAIN store :
                     IF lower(store[k].by[1]) = lower(inv.profession)
                     THEN k \notin DOMAIN store'
                     ELSE k \in DOMAIN store' /\ store'[k] = store[k]]_vars

\* C6: clear_cache_for_user(P, T) removes the key of (P, T) and nothing else,
\* leaves every other entry as it was, and returns true exactly when a key was
\* removed.
C6_SingleEntryInvalidation ==
    [][(ClearUserStep /\ redis_client) =>
          LET key == KeyPrefix \o lower(inv'.profession) \o <<"_">> \o inv'.time_period
          IN  /\ DOMAIN store' = DOMAIN store \ {key}
              /\ \A k \in DOMAIN store' : store'[k] = store[k]
              /\ \A k \in DOMAIN store :
                     k \in DOMAIN store'
                     <=> ~SameRequest(store[k].by, <<inv'.profession, inv'.time_period>>)
              /\ inv'.removed <=> DOMAIN store' # DOMAIN store
              /\ ~inv'.raised]_vars

\* A single-entry clear has removed its key and returned true while another
\* period of the same profession is still cached.
C6_Witness ==
    /\ inv.op = "user"
    /\ inv.removed
    /\ ~HasEntry(inv.profession, inv.time_period)
    /\ \E k \in DOMAIN store :
           /\ lower(store[k].by[1]) = lower(inv.profession)
           /\ store[k].by[2] # inv.time_period

\* C7: two calls of get_cache_key whose professions are equal ignoring case
\* and whose periods are equal return the same key, and building the keys
\* leaves the store and the callers as they were.
C7_KeyCaseInsensitive ==
    keyOut # NoKeys =>
        /\ SameRequest(keyIn[1], keyIn[2]) => keyOut[1] = keyOut[2]
        /\ store = <<>>
        /\ \A c \in Callers : pc[c] = "idle"

\* The keys of two requests that differ only in the profession's casing have
\* been built.
C7_Witness ==
    /\ keyOut # NoKeys
    /\ keyIn[1][1] # keyIn[2][1]
    /\ SameRequest(keyIn[1], keyIn[2])
    /\ keyOut[1] = keyOut[2]

\* C8 as stated: any two requests that differ in the lower-cased profession
\* or in the period get different keys.
C8_KeyInjective ==
    keyOut # NoKeys =>
        (~SameRequest(keyIn[1], keyIn[2]) => keyOut[1] # keyOut[2])

\* A period that does not contain the separator.
NoSeparator(t) == \A i \in 1..Len(t) : t[i] # "_"

\* C8 amended: two requests that differ in the lower-cased profession or in
\* the period get different keys when neither period contains the separator
\* "_" (as "day", "week" and "month" do not); the profession may contain it.
C8_KeyInjectiveNoSeparator ==
    keyOut # NoKeys =>
        ((/\ ~SameRequest(keyIn[1], keyIn[2])
          /\ NoSeparator(keyIn[1][2])
          /\ NoSeparator(keyIn[2][2]))
         => keyOut[1] # keyOut[2])

\* The keys of a profession and of a profession that extends it after a
\* separator have been built for the same valid period, and differ.
C8_Witness ==
    /\ keyOut # NoKeys
    /\ keyIn[1] = <<data, Day>>
    /\ keyIn[2] = <<data_scientist, Day>>
    /\ keyOut[1] # keyOut[2]

\* C9: without a client (redis_client is None) nothing is ever stored, every
\* finished gateway call has invoked the generator and returned "fresh" or
\* "error", no exception has left a call, and the invalidation calls have
\* returned 0 and false.
C9_DegradedMode ==
    ~redis_client =>
        /\ store = <<>>
        /\ \A c \in Callers :
               /\ pc[c] # "raised"
               /\ pc[c] = "returned" =>
                      (result[c].source \in {"fresh", "error"} /\ invoked[c] = 1)
        /\ inv.pc = "idle"
        /\ inv.ret = 0
        /\ ~inv.removed
        /\ ~inv.raised

\* Without a client, a second gateway call has again run the generator and
\* returned fresh content.
C9_Witness ==
    /\ ~redis_client
    /\ \E c \in Callers :
           /\ calls[c] = 2
           /\ pc[c] = "returned"
           /\ result[c].source = "fresh"
           /\ invoked[c] = 1

\* C10: whatever the store and the generator do, no exception leaves
\* generate_newsletter_with_cache, a call that has not returned yet can take
\* its next step, and a returned result is tagged "cache", "fresh" or "error".
C10_TotalTaggedOutcome ==
    \A c \in Callers :
        /\ pc[c] # "raised"
        /\ pc[c] = "returned" => result[c].source \in {"cache", "fresh", "error"}
        /\ pc[c] = "generate" => ENABLED InGateway(GenerateRaises(c))
        /\ pc[c] = "generate" =>
               \E s \in Summaries : ENABLED InGateway(GenerateReturns(c, s))
        /\ pc[c] = "write" => ENABLED InGateway(Write(c))

\* A call made while the store did not answer has returned fresh content
\* although an entry for its request is in the store.
C10_Witness ==
    \E c \in Callers :
        /\ ~storeUp
        /\ pc[c] = "returned"
        /\ result[c].source = "fresh"
        /\ HasEntry(req[c].profession, req[c].time_period)

\* Caller c's generator raises in this step: the gateway's except branch answers.
GeneratorRaisesStep(c) ==
    /\ pc[c] = "generate"
    /\ pc'[c] = "returned"
    /\ result'[c].newsletter.kind = "message"
    /\ result'[c].newsletter.raised

\* Caller c's generator hands back an empty newsletter in this step: it returns
\* without raising and the gateway holds no non-empty newsletter afterwards.
ReturnsEmptyStep(c) ==
    /\ pc[c] = "generate"
    /\ invoked'[c] = invoked[c] + 1
    /\ ~Truthy(local'[c])
    /\ ~GeneratorRaisesStep(c)

\* C11 (as claimed): when the generator returns an empty newsletter on a miss,
\* the gateway takes the empty value to the cache write and returns it with
\* source "fresh".
C11_EmptyIsFresh ==
    [][\A c \in Callers :
          ReturnsEmptyStep(c) => pc'[c] = "write" /\ local'[c] = EmptyStr]_vars

\* C11 (amended): when the generator returns an empty newsletter on a miss, the
\* gateway writes nothing and returns source "error" with the fixed message
\* "Error generating newsletter"; no stored value is ever empty.
C11_EmptyIsError ==
    [][\A c \in Callers :
          ReturnsEmptyStep(c)
          => /\ pc'[c] = "returned"
             /\ result'[c] = [source |-> "error",
                              newsletter |-> [kind |-> "message", raised |-> FALSE]]
             /\ invoked'[c] = 1
             /\ store' = store
             /\ \A k \in DOMAIN store' : Truthy(store'[k].value)]_vars

\* A call whose generator returned nothing has ended as an error and left no
\* entry for its request.
C11_Witness ==
    \E c \in Callers :
        /\ pc[c] = "returned"
        /\ invoked[c] = 1
        /\ result[c] = [source |-> "error",
                        newsletter |-> [kind |-> "message", raised |-> FALSE]]
        /\ \A k \in DOMAIN store : store[k].by # ReqPair(req[c])

\* Caller c's call performs its write-through and returns in this step.
WriteStep(c) == pc[c] = "write" /\ pc'[c] # "write"

\* C12: when the generator succeeded and the write-through fails
\* (cache_newsletter returns False: no client, or setex raised), the call still
\* returns the generated content with source "fresh" and the store is unchanged.
C12_WriteFailureNotCallFailure ==
    [][\A c \in Callers :
          (WriteStep(c) /\ ~cache_newsletter_ret)
          => /\ pc'[c] = "returned"
             /\ Truthy(local[c])
             /\ result'[c] = [source |-> "fresh", newsletter |-> local[c]]
             /\ store' = store]_vars

\* A first call has returned fresh content while the server does not answer,
\* and the store holds nothing.
C12_Witness ==
    \E c \in Callers :
        /\ redis_client
        /\ ~storeUp
        /\ calls[c] = 1
        /\ pc[c] = "returned"
        /\ result[c].source = "fresh"
        /\ Truthy(result[c].newsletter)
        /\ store = <<>>

\* A final_summary that carries the trace of a failed LLM step: the text
\* "Error selecting top points: ..." or a summary "Error summarizing ...".
ErrorIndicator(final_summary) ==
    \/ final_summary.kind = "error_selecting"
    \/ /\ final_summary.kind = "selected"
       /\ (final_summary.news.kind = "error" \/ final_summary.tools.kind = "error")

\* The value comes from a generation that failed: the gateway's error message,
\* or a newsletter built around an error indicator.
GenerationFailed(v) ==
    \/ v.kind = "message"
    \/ v.kind = "newsletter" /\ ErrorIndicator(v.final_summary)

\* C13: whenever the generator fails (it raises, or a search / LLM step inside
\* it fails and it returns an error indicator), the call returns source "error"
\* after a single generator invocation and nothing of it is in the cache.
C13_FailureNeverCached ==
    /\ \A c \in Callers :
          (pc[c] = "returned" /\ GenerationFailed(result[c].newsletter))
          => result[c].source = "error" /\ invoked[c] = 1
    /\ \A k \in DOMAIN store : ~GenerationFailed(store[k].value)

\* The time_period a request stands for once an unrecognized one is read as "day".
NormalizedPeriod(t) == IF t \in ValidPeriods THEN t ELSE Day

\* C14: the gateway normalizes an unrecognized time_period to "day" before it
\* builds the key, so a call for (P, X) is served from the entry written by a
\* request for the same profession and the same normalized period: after a
\* fresh (P, X), (P, "day") is a hit, and the other way round.
C14_NormalizedKeying ==
    [][\A c \in Callers : \A k \in DOMAIN store :
          (/\ CallStep(c)
           /\ lower(store[k].by[1]) = lower(req'[c].profession)
           /\ NormalizedPeriod(store[k].by[2]) = NormalizedPeriod(req'[c].time_period))
          => /\ pc'[c] = "returned"
             /\ result'[c] = [source |-> "cache", newsletter |-> store[k].value]]_vars

\* A clear_cache_for_profession call starts in this step (its KEYS command).
ClearProfessionKeysStep == inv'.op = "profession" /\ inv'.n # inv.n

\* The invalidation call of this step repeats the finished call before it.
RepeatsClear ==
    /\ inv.pc = "idle"
    /\ inv'.op = inv.op
    /\ inv'.profession = inv.profession
    /\ inv'.time_period = inv.time_period

\* C15: a second clear_cache_for_profession(P) with no write in between returns
\* 0, and a second clear_cache_for_user(P, T) returns false; neither raises nor
\* changes the store.
C15_IdempotentInvalidation ==
    [][/\ (ClearUserStep /\ RepeatsClear)
          => ~inv'.removed /\ ~inv'.raised /\ store' = store
       /\ (ClearProfessionKeysStep /\ RepeatsClear)
          => /\ inv'.pc = "idle"
             /\ inv'.ret = 0
             /\ ~inv'.raised
             /\ store' = store]_vars

\* A clear_cache_for_profession that had removed entries has been repeated and
\* has removed nothing, while other entries are still stored.
C15_Witness ==
    /\ inv.pc = "idle"
    /\ inv.again
    /\ inv.op = "profession"
    /\ inv.ret = 0
    /\ store # <<>>

\* The key of caller c's call.
KeyOf(c) == get_cache_key(req[c].profession, req[c].time_period)

\* C16: two calls for the same (P, T) that interleave on a store with no live
\* entry are not deduplicated.  Whenever a call writes while another call for
\* the same key is in flight or has finished, the writer returns its own
\* content as fresh, the other caller's result is not touched, and the stored
\* value is the writer's, that is, the one of the last setex, with its lifetime
\* counted from that write.
C16_LastWriteWins ==
    [][\A c \in Callers : \A d \in Callers \ {c} :
          (WriteStep(c) /\ cache_newsletter_ret /\ KeyOf(d) = KeyOf(c))
          => /\ result'[c] = [source |-> "fresh", newsletter |-> local[c]]
             /\ result'[d] = result[d]
             /\ local'[d] = local[d]
             /\ pc'[d] = pc[d]
             /\ store'[KeyOf(c)].value = local[c]
             /\ store'[KeyOf(c)].age = 0
             /\ store'[KeyOf(c)].ttl = ttl_seconds(req[c].time_period)]_vars

\* Both callers missed for the same key, each invoked the generator once and
\* got its own content as fresh; the second write replaced the first one's
\* live entry and its value is the one stored.
C16_Witness ==
    \E c \in Callers : \E d \in Callers \ {c} :
        /\ pc[c] = "returned" /\ pc[d] = "returned"
        /\ ReqPair(req[c]) = ReqPair(req[d])
        /\ result[c].source = "fresh" /\ result[d].source = "fresh"
        /\ invoked[c] = 1 /\ invoked[d] = 1
        /\ result[c].newsletter # result[d].newsletter
        /\ replaced[c] # None
        /\ replaced[c].value = result[d].newsletter
        /\ KeyOf(c) \in DOMAIN store
        /\ store[KeyOf(c)].value = result[c].newsletter

\* C18: cache_newsletter on a key that holds a live entry replaces the whole
\* value and sets the remaining lifetime to the full TTL of the time_period,
\* whatever the previous value and the previous entry's remaining lifetime; the
\* other keys are left as they are.
C18_WriteReplacesAndResets ==
    [][\A c \in Callers :
          (WriteStep(c) /\ cache_newsletter_ret /\ KeyOf(c) \in DOMAIN store)
          => /\ DOMAIN store' = DOMAIN store
             /\ store'[KeyOf(c)] =
                    [value |-> local[c], ttl |-> ttl_seconds(req[c].time_period),
                     age |-> 0, by |-> ReqPair(req[c])]
             /\ \A k \in DOMAIN store \ {KeyOf(c)} : store'[k] = store[k]]_vars

\* A write has replaced a live entry that held another value and had used up
\* part of its lifetime; the entry now holds the new value at age 0.
C18_Witness ==
    \E c \in Callers :
        /\ replaced[c] # None
        /\ replaced[c].age > 0
        /\ KeyOf(c) \in DOMAIN store
        /\ replaced[c].value # store[KeyOf(c)].value
        /\ store[KeyOf(c)].value = result[c].newsletter
        /\ store[KeyOf(c)].age = 0

\* Caller c's gateway call takes a step: it starts, or it moves on from the
\* generator or from the write.
GatewayStep(c) ==
    \/ CallStep(c)
    \/ pc[c] \in {"generate", "write"} /\ pc'[c] # pc[c]

\* C17: within one call the cache read comes first, the generator is invoked
\* only after that read reported a miss, and the write happens only after the
\* generator returned a newsletter; a call that hits invokes no generator and
\* writes nothing.
C17_PerRequestOrdering ==
    [][\A c \in Callers :
          /\ (pc'[c] = "generate" /\ pc[c] # "generate")
             => /\ CallStep(c)
                /\ ~Truthy(get_cached_newsletter(req'[c].profession,
                                                 req'[c].time_period))
          /\ invoked'[c] > invoked[c]
             => pc[c] = "generate" /\ invoked[c] = 0
          /\ (pc'[c] = "write" /\ pc[c] # "write")
             => pc[c] = "generate" /\ invoked'[c] = 1 /\ Truthy(local'[c])
          /\ (GatewayStep(c) /\ store' # store) => pc[c] = "write"
          /\ (CallStep(c) /\ result'[c].source = "cache")
             => pc'[c] = "returned" /\ invoked'[c] = 0 /\ store' = store
          /\ (pc[c] = "returned" /\ pc'[c] \notin {"returned", "idle"})
             => CallStep(c)]_vars

\* A later call has been answered from an entry written some time before, with
\* no generator invocation and nothing left to write.
C17_Witness ==
    \E c \in Callers :
        /\ calls[c] >= 2
        /\ pc[c] = "returned"
        /\ result[c].source = "cache"
        /\ invoked[c] = 0
        /\ local[c] = None
        /\ KeyOf(c) \in DOMAIN store
        /\ store[KeyOf(c)].age > 0

\* The client exists and the server does not answer: every command raises.
StoreFails == redis_client /\ ~storeUp

\* C19: when a store command raises while the client exists,
\* get_cached_newsletter returns not-found and the request goes on as a miss,
\* cache_newsletter returns False, clear_cache_for_profession returns 0 and
\* clear_cache_for_user returns false; nothing is raised to the caller and the
\* store is as it was.
C19_StoreErrorsDegrade ==
    [][StoreFails =>
          /\ \A c \in Callers :
                /\ CallStep(c)
                   => /\ get_cached_newsletter(req'[c].profession,
                                               req'[c].time_period) = None
                      /\ pc'[c] = "generate"
                      /\ store' = store
                /\ WriteStep(c)
                   => ~cache_newsletter_ret /\ pc'[c] = "returned" /\ store' = store
                /\ pc'[c] # "raised"
          /\ ClearUserStep
             => ~inv'.removed /\ ~inv'.raised /\ store' = store
          /\ ClearProfessionKeysStep
             => inv'.pc = "idle" /\ inv'.ret = 0 /\ ~inv'.raised /\ store' = store
          /\ ClearProfessionStep
             => inv'.ret = 0 /\ ~inv'.raised /\ store' = store]_vars

\* A clear_cache_for_profession call has returned 0 although entries of that
\* profession are stored: its command failed and the failure was swallowed.
C19_Witness ==
    /\ redis_client
    /\ inv.op = "profession"
    /\ inv.pc = "idle"
    /\ inv.ret = 0
    /\ ~inv.raised
    /\ \E k \in DOMAIN store : GlobMatch(clear_pattern(inv.profession), k)

\* C20: emit_event and emit_batch never raise; a record that failed on its way
\* to Firehose or to the local file makes the call return False; and no emit
\* call touches the cache or a gateway call in progress, whose hit-or-miss
\* outcome stays the one the store dictates.
C20_TelemetryBestEffort ==
    [][/\ tel'.made => ~tel'.raised
       /\ (tel'.made /\ tel'.op # "none" /\ tel'.lost > 0) => ~tel'.ret
       /\ tel' # tel => UNCHANGED CacheVars
       /\ \A c \in Callers :
             CallStep(c)
             => /\ tel' = tel
                /\ (result'[c].source = "cache")
                   <=> Truthy(get_cached_newsletter(req'[c].profession,
                                                    req'[c].time_period))]_vars

\* With telemetry enabled an emit call has lost a record and returned False
\* without raising, while the cache holds an entry and a later call was served
\* from it.
C20_Witness ==
    /\ tel.made
    /\ tel.enabled
    /\ tel.op = "emit_batch"
    /\ tel.lost > 0
    /\ ~tel.ret
    /\ ~tel.raised
    /\ store # <<>>
    /\ \E c \in Callers : pc[c] = "returned" /\ result[c].source = "cache"

\* C21: every key in the store is "newsletter_" + lower(profession) + "_" +
\* time_period for the request that wrote it; it starts with "newsletter_" and
\* its profession part holds no upper-case character.
C21_KeyLayout ==
    \A k \in DOMAIN store :
        LET P == store[k].by[1]
            T == store[k].by[2]
        IN  /\ k = KeyPrefix \o lower(P) \o <<"_">> \o T
            /\ Len(k) >= Len(KeyPrefix)
            /\ SubSeq(k, 1, Len(KeyPrefix)) = KeyPrefix
            /\ \A i \in (Len(KeyPrefix) + 1)..(Len(k) - Len(T) - 1) :
                  k[i] \notin DOMAIN LowerTable

\* An entry written by a request whose profession had an upper-case letter is
\* stored next to another entry.
C21_Witness ==
    /\ \E k \in DOMAIN store : store[k].by[1] = DataCap
    /\ Cardinality(DOMAIN store) >= 2

\* The event of the harness has the key f.
Carries(f) == f \in DOMAIN ev.event

\* C22: a cache_operation event always carries query_fingerprint and the
\* cache_hit boolean; it carries cache_item_age_s and ttl_remaining_s only when
\* cache_hit is true, and ttl_assigned_s and miss_reason only when cache_hit is
\* false, whatever optional arguments were passed.
C22_CacheOperationShape ==
    ev.event # NoEvent =>
        /\ Carries("query_fingerprint")
        /\ ev.event["query_fingerprint"] = ev.args.query_fingerprint
        /\ Carries("cache_hit")
        /\ ev.event["cache_hit"] = ev.args.cache_hit
        /\ (Carries("cache_item_age_s") \/ Carries("ttl_remaining_s"))
           => ev.args.cache_hit
        /\ (Carries("ttl_assigned_s") \/ Carries("miss_reason"))
           => ~ev.args.cache_hit

\* A hit event was built from a call that also passed the miss-only arguments:
\* it carries the age and leaves out the assigned TTL and the reason.
C22_Witness ==
    /\ ev.event # NoEvent
    /\ ev.args.cache_hit
    /\ ev.args.ttl_assigned_s # {}
    /\ ev.args.miss_reason = {"expired"}
    /\ Carries("cache_item_age_s")
    /\ ev.event["cache_item_age_s"] = 3600
    /\ ~Carries("ttl_assigned_s")
    /\ ~Carries("miss_reason")

\* C23: when a cached entry exists and the user chooses "Generate fresh
\* results", the entry for (P, T) is gone before generation starts, and the
\* result returned has source "fresh" or "error", never "cache".
C23_ForcedRefreshHonoured ==
    ui.forced =>
        /\ (ui.pc = "generate" /\ pc["c1"] = "idle")
           => get_cache_key(ui.profession, ui.time_period) \notin DOMAIN store
        /\ ui.pc = "done" => ui.source \in {"fresh", "error"}

\* C24: every value in the store is a non-empty newsletter, and so is the
\* newsletter of every result with source "cache" or "fresh".
C24_StoredValuesNonEmpty ==
    /\ \A k \in DOMAIN store :
          Truthy(store[k].value) /\ store[k].value.kind = "newsletter"
    /\ \A c \in Callers :
          result[c].source \in {"cache", "fresh"}
          => Truthy(result[c].newsletter) /\ result[c].newsletter.kind = "newsletter"

\* The generator has handed back an empty newsletter while the store holds
\* entries of earlier calls.
C24_Witness ==
    /\ store # <<>>
    /\ \E c \in Callers :
          /\ pc[c] = "returned"
          /\ result[c] = [source |-> "error",
                          newsletter |-> [kind |-> "message", raised |-> FALSE]]

\* Caller c's call is answered from the cache in this step with the value of
\* an entry that request `by` wrote, a generator output made for `by`.
ServedFrom(c, by) ==
    /\ CallStep(c)
    /\ result'[c].source = "cache"
    /\ KeyOf(c)' \in DOMAIN store
    /\ store[KeyOf(c)'].by = by
    /\ result'[c].newsletter = store[KeyOf(c)'].value
    /\ \E s \in Summaries : store[KeyOf(c)'].value = graph_invoke(by[1], by[2], s)

InvalidationStep == inv' # inv

\* The keys of the store that the pattern of clear_cache_for_profession matches.
Matching(st, profession) ==
    {k \in DOMAIN st : GlobMatch(clear_pattern(profession), k)}

\* C26: an invalidation racing with a gateway call. (a) A step of an
\* invalidation only removes entries that are in the store at that step: it adds
\* none, changes none, and what it removes is among the keys it named. (b) The
\* write of a call that had read its miss before the invalidation sent its DEL
\* is not prevented: after that write the store holds the generated content
\* under the call's key. (c) When no entry of the profession was written since
\* the keys were listed, no entry matching the profession's pattern is left
\* after clear_cache_for_profession returns; clear_cache_for_user leaves no
\* entry under its key.
C26_InvalidationRace ==
    [][/\ InvalidationStep
          => /\ \A k \in DOMAIN store' : k \in DOMAIN store /\ store'[k] = store[k]
             /\ (DOMAIN store) \ (DOMAIN store') \subseteq inv'.keys
       /\ \A c \in Callers :
            (WriteStep(c) /\ c \in inv.inflight /\ cache_newsletter_ret)
            => /\ KeyOf(c) \in DOMAIN store'
               /\ store'[KeyOf(c)].value = local[c]
               /\ result'[c] = [source |-> "fresh", newsletter |-> local[c]]
       /\ (ClearProfessionStep /\ Matching(store, inv.profession) \subseteq inv.keys)
            => Matching(store', inv.profession) = {}
       /\ (ClearProfessionKeysStep /\ inv'.pc = "idle" /\ redis_client)
            => Matching(store', inv'.profession) = {}
       /\ ClearUserStep
            => get_cache_key(inv'.profession, inv'.time_period) \notin DOMAIN store'
      ]_vars

\* clear_cache_for_profession listed and deleted an entry while a call for the
\* same profession had read its miss; the call has since written, and its
\* entry is in the store after both have completed.
C26_Witness ==
    \E c \in Callers :
        /\ inv.pc = "idle"
        /\ inv.op = "profession"
        /\ inv.ret > 0
        /\ c \in inv.inflight
        /\ pc[c] = "returned"
        /\ result[c].source = "fresh"
        /\ req[c].profession = inv.profession
        /\ KeyOf(c) \in DOMAIN store
        /\ store[KeyOf(c)].value = result[c].newsletter

\* What the cache functions are to be called with from the interactive flow.
Normalized(profession, time_period) ==
    /\ profession # <<>>
    /\ lower(profession) = profession
    /\ time_period \in ValidPeriods

\* C27: every call from interactive_agent.main that reaches the cache uses a
\* non-empty lower-case profession and a time_period among day, week, month:
\* the arguments of get_cached_newsletter in generate_newsletter_interactive
\* (ui), of clear_cache_for_user (inv), of the gateway's read and of
\* cache_newsletter (req, and the writer recorded in each entry). The prompts
\* return only what the claim lists: get_user_profession a non-empty lower-case
\* string or None, get_user_time_period one of the three periods or None,
\* get_expanded_time_period one of the three periods, None or the marker
\* "new_profession", and main never keeps the marker as its time_period.
C27_InteractiveInputsNormalized ==
    /\ ui.pc # "idle" => Normalized(ui.profession, ui.time_period)
    /\ inv.op = "user" => Normalized(inv.profession, inv.time_period)
    /\ \A c \in Callers :
          req[c] # NoReq => Normalized(req[c].profession, req[c].time_period)
    /\ \A k \in DOMAIN store : Normalized(store[k].by[1], store[k].by[2])
    /\ main.time_period \in ValidPeriods \cup {<<>>}
    /\ main.pc \notin {"profession", "done"}
          => main.profession # <<>> /\ lower(main.profession) = main.profession
    /\ \A profession \in UserProfessions :
          \/ profession \in {None, Asking}
          \/ /\ profession.kind = "str"
             /\ profession.value # <<>>
             /\ lower(profession.value) = profession.value
    /\ \A choice \in Choices :
          get_user_time_period(choice) \in {None, Asking} \cup {Str(t) : t \in ValidPeriods}
    /\ \A t \in ValidPeriods, choice \in Choices :
          get_expanded_time_period(t, choice)
            \in {None, Asking} \cup {Str(x) : x \in ValidPeriods \cup {new_profession}}

\* The user typed a profession, accepted the validator's mixed-case correction
\* "Data_Scientist", and a newsletter written for the lower-cased correction
\* is in the store.
C27_Witness ==
    /\ main.profession = data_scientist
    /\ main.pc = "menu"
    /\ \E k \in DOMAIN store :
          /\ store[k].by[1] = data_scientist
          /\ store[k].by[2] = main.time_period

\* The order day < week < month of the time ranges.
Rank == (Day :> 1) @@ (Week :> 2) @@ (Month :> 3)

\* C28: the expansion of the time range is strictly widening and bounded: a
\* step of main that takes the value of get_expanded_time_period as the new
\* time_period moves to a strictly broader period, no period follows month,
\* and the retry loop calls generate_newsletter_interactive at most three
\* times (once per period) for one profession.
C28_ExpansionWidensAndBounded ==
    [][/\ (main.pc = "expand" /\ main'.pc = "generate")
          => /\ main.time_period \in ValidPeriods
             /\ main'.time_period \in ValidPeriods
             /\ Rank[main'.time_period] > Rank[main.time_period]
       /\ (main.pc = "expand" /\ main.time_period = Month) => main'.pc # "generate"
       /\ main'.gens <= Cardinality(ValidPeriods)
      ]_vars

\* The third generation for one profession, for the month, was insufficient
\* and the user asks to expand again.
C28_Witness ==
    /\ main.pc = "expand"
    /\ main.time_period = Month
    /\ main.gens = Cardinality(ValidPeriods)

\* C30: with telemetry enabled and Firehose in use, emit_batch(events) returns
\* True only if every event of the list was accepted by Firehose, and the
\* success_count and failed_count of put_record_batch add up to the number of
\* records it was given, also for a list longer than the batch limit.
C30_BatchReportsLoss ==
    (tel.made /\ tel.enabled /\ ~tel.local_fallback /\ tel.op = "emit_batch")
    => /\ tel.ret => tel.delivered = tel.given
       /\ \A records \in Batches :
             LET r == put_record_batch(records)
             IN  r.success_count + r.failed_count = Len(records)

====
